---- MODULE Spec2Model ----
(***************************************************************************)
(* Model of bot.py: the multi-timeframe + price-action (BOS) + ATR +       *)
(* 200EMA trading bot.                                                     *)
(*                                                                         *)
(* A Python float is the record [n, d, x]: n/d, in lowest terms with       *)
(* d > 0, is the real number the float stands for; x tells how close the   *)
(* double is to it.  x = FALSE: the double is n/d rounded to nearest (n/d  *)
(* itself when it is a binary fraction): a literal, a parsed text, one     *)
(* operation on operands that are themselves exact.  x = TRUE: roundings   *)
(* have been accumulated, and the double may lie a few units in the last   *)
(* place off n/d.  Two floats of different n/d compare as the rationals    *)
(* do; two floats of the same n/d are the same double when neither has     *)
(* x, and compare either way otherwise.  An operator whose result a        *)
(* rounding can decide returns the set of the results the code can give.   *)
(* None is the record NoneVal.                                             *)
(***************************************************************************)
EXTENDS Integers, Sequences, FiniteSets, TLC

VARIABLES pc, args, ret,
          LIVE_TRADING, product_map, candles, positions, wallet,
          cycle, bal, idx, sig, qty, tp, res, orders

vars == <<pc, args, ret, LIVE_TRADING, product_map, candles, positions, wallet,
          cycle, bal, idx, sig, qty, tp, res, orders>>

envVars == <<LIVE_TRADING, product_map, candles, positions, wallet>>
runVars == <<cycle, bal, idx, sig, qty, tp, res, orders>>

(***************************************************************************)
(* Float arithmetic                                                        *)
(***************************************************************************)
NoneVal == [none |-> TRUE]

IAbs(x) == IF x < 0 THEN -x ELSE x

RECURSIVE Gcd(_, _)
Gcd(a, b) == IF b = 0 THEN a ELSE Gcd(b, a % b)

\* n/d in lowest terms with a positive denominator, rounded as x tells
Frac(n, d, x) ==
    LET s == IF d < 0 THEN -1 ELSE 1
        g == Gcd(IAbs(n), IAbs(d))
    IN  [n |-> (s * n) \div g, d |-> (s * d) \div g, x |-> x]

\* the float nearest to n/d: a literal of the source, a number of a JSON text
Rat(n, d) == Frac(n, d, FALSE)

R(i) == [n |-> i, d |-> 1, x |-> FALSE]

PowersOfTwo == {2^k : k \in 0..30}

\* the double is exactly n/d
IsExact(a) == ~a.x /\ a.d \in PowersOfTwo

\* the double is 0.0
IsZero(a) == a.n = 0 /\ ~a.x

\* the double is plus or minus a power of two
IsPow2(a) ==
    /\ ~a.x
    /\ \/ a.d = 1 /\ IAbs(a.n) \in PowersOfTwo
       \/ IAbs(a.n) = 1 /\ a.d \in PowersOfTwo

\* the same real number
REq(a, b) == a.n = b.n /\ a.d = b.d

\* a + b is exact on exact operands, and is 0.0 for a double and its opposite
AddRounds(a, b) ==
    /\ ~(IsExact(a) /\ IsExact(b))
    /\ ~(~a.x /\ ~b.x /\ a.d = b.d /\ a.n = -b.n)

RAdd(a, b) ==
    IF IsZero(a) THEN b
    ELSE IF IsZero(b) THEN a
    ELSE IF a.d = 1 /\ b.d = 1 THEN [n |-> a.n + b.n, d |-> 1, x |-> a.x \/ b.x]
    ELSE LET g == Gcd(a.d, b.d)
         IN  Frac(a.n * (b.d \div g) + b.n * (a.d \div g), (a.d \div g) * b.d,
                  AddRounds(a, b))

RNeg(a) == [n |-> -a.n, d |-> a.d, x |-> a.x]

RSub(a, b) == RAdd(a, RNeg(b))

\* the product of the two fractions, cancelled crosswise first
Times(a, b, x) ==
    IF a.d = 1 /\ b.d = 1 THEN [n |-> a.n * b.n, d |-> 1, x |-> x]
    ELSE LET g1 == Gcd(IAbs(a.n), b.d)
             g2 == Gcd(IAbs(b.n), a.d)
         IN  Frac((a.n \div g1) * (b.n \div g2), (a.d \div g2) * (b.d \div g1), x)

\* a * b is exact on exact operands, and a scaling by a power of two keeps a
\* nearest double nearest
MulRounds(a, b) ==
    /\ ~(IsExact(a) /\ IsExact(b))
    /\ ~(IsPow2(a) /\ ~b.x)
    /\ ~(IsPow2(b) /\ ~a.x)

RMul(a, b) ==
    IF IsZero(a) \/ IsZero(b) THEN R(0)
    ELSE Times(a, b, MulRounds(a, b))

\* a / b of exact operands is the quotient rounded to nearest
DivRounds(a, b) ==
    /\ ~IsZero(a)
    /\ ~(IsExact(a) /\ IsExact(b))
    /\ ~(IsPow2(b) /\ ~a.x)

\* a / b for b # 0 (the callers guard the divisor as the code does)
RDiv(a, b) ==
    IF IsZero(a) THEN R(0)
    ELSE Times(a, [n |-> IF b.n < 0 THEN -b.d ELSE b.d, d |-> IAbs(b.n)],
               DivRounds(a, b))

RAbs(a) == [n |-> IAbs(a.n), d |-> a.d, x |-> a.x]

\* a < b as real numbers, by integer parts and then the reciprocals of the
\* fractional parts
RECURSIVE RLt(_, _)
RLt(a, b) ==
    IF a.d = b.d THEN a.n < b.n
    ELSE
      LET fa == a.n \div a.d
          fb == b.n \div b.d
          ra == a.n % a.d
          rb == b.n % b.d
      IN  IF fa # fb THEN fa < fb
          ELSE IF rb = 0 THEN FALSE
          ELSE IF ra = 0 THEN TRUE
          ELSE RLt([n |-> b.d, d |-> rb], [n |-> a.d, d |-> ra])

RGt(a, b) == RLt(b, a)
RLe(a, b) == ~RLt(b, a)
RGe(a, b) == ~RLt(a, b)

\* the outcomes of the float comparisons a < b, a <= b, a > b, a >= b
FLt(a, b) ==
    IF REq(a, b) THEN (IF a.x \/ b.x THEN BOOLEAN ELSE {FALSE}) ELSE {RLt(a, b)}

FLe(a, b) ==
    IF REq(a, b) THEN (IF a.x \/ b.x THEN BOOLEAN ELSE {TRUE}) ELSE {RLt(a, b)}

FGt(a, b) == FLt(b, a)
FGe(a, b) == FLe(b, a)

\* a finite float larger in magnitude than every number of the model, of the
\* given sign (1 or -1): a number divided by a rounded-off zero
Huge(sign) == [huge |-> sign]
IsHuge(a) == "huge" \in DOMAIN a

\* a float the model has no number for: the quotient of two rounded-off zeros
AnyFloat == [any |-> TRUE]
IsNumber(a) == "n" \in DOMAIN a

\* a division by 0.0
ZeroDivisionError == [raised |-> "ZeroDivisionError"]

\* max(a, b), min(a, b): one of the two doubles
RMax(a, b) ==
    IF RLt(a, b) THEN b
    ELSE IF RLt(b, a) THEN a
    ELSE [n |-> a.n, d |-> a.d, x |-> a.x \/ b.x]

RMin(a, b) ==
    IF RLt(b, a) THEN b
    ELSE IF RLt(a, b) THEN a
    ELSE [n |-> a.n, d |-> a.d, x |-> a.x \/ b.x]

\* math.floor
Floor(a) == a.n \div a.d

(***************************************************************************)
(* CONFIG                                                                  *)
(***************************************************************************)
LEVERAGE == 100
RISK_USD == Rat(7, 10)
MIN_TP_USD == R(1)
WATCHLIST == <<"BTCUSD", "ETHUSD", "SOLUSD">>
EMA_200_PERIOD == 200
ATR_LEN == 14
ATR_ENTRY_MULT == Rat(1, 2)
ATR_SL_MULT == R(1)
TP_RR == R(2)
ENTRY_TFS == <<"15m", "30m", "1h", "2h">>
CANDLES_15M == 300
CANDLES_4H == 250
MAX_NOTIONAL_BUF == Rat(95, 100)

(***************************************************************************)
(* ACCOUNT / SIZING                                                        *)
(***************************************************************************)
\* the rounding step of compute_qty: floor(qty*100000)/100000.0
QTY_STEPS == 100000

\* max(0.0, math.floor(qty*100000)/100000.0).  Away from a whole number of
\* steps the float product has the floor of the exact one.  When qty*100000
\* is a whole number k and the product is rounded (0.7 itself is no binary
\* fraction), the double is k or just below k, and floor gives k or k - 1.
floor_steps(q) ==
    LET x == RMul(q, R(QTY_STEPS))
        k == Floor(x)
    IN  IF k <= 0 THEN {R(0)}
        ELSE IF x.d = 1 /\ x.x THEN {Rat(k, QTY_STEPS), Rat(k - 1, QTY_STEPS)}
        ELSE {Rat(k, QTY_STEPS)}

\* qty = max_notional / entry, floored.  An entry of 0.0 raises; an entry
\* that is a rounded-off zero is 0.0 or a tiny float of either sign, and the
\* quotient 0, or huge and then clamped at 0 when negative, or any number
\* when max_notional is a rounded-off zero too
cap_qty(entry, max_notional) ==
    IF entry.n # 0 THEN floor_steps(RDiv(max_notional, entry))
    ELSE IF ~entry.x THEN {ZeroDivisionError}
    ELSE {R(0), ZeroDivisionError}
           \cup (IF IsZero(max_notional) THEN {}
                 ELSE IF max_notional.n = 0 THEN {AnyFloat} ELSE {Huge(1)})

\* the quantity after the leverage cap, floored: notional > max_notional is a
\* float comparison
capped_qty(entry, qty0, max_notional) ==
    UNION {IF over THEN cap_qty(entry, max_notional) ELSE floor_steps(qty0) :
             over \in FGt(RMul(qty0, entry), max_notional)}

\* the quantity for a dist that is a rounded-off zero and > 0 as a float:
\* RISK_USD / dist is huge, and so is the notional unless the entry is 0
tiny_dist_qty(entry, max_notional) ==
    IF entry.n > 0 THEN cap_qty(entry, max_notional)
    ELSE IF entry.n < 0 THEN {Huge(1)}
    ELSE IF ~entry.x
    THEN UNION {IF over THEN cap_qty(entry, max_notional) ELSE {Huge(1)} :
                  over \in FGt(R(0), max_notional)}
    ELSE {Huge(1)} \cup cap_qty(entry, max_notional)

\* compute_qty from dist on: dist <= 0 is a float comparison
sized_qty(entry, dist, max_notional) ==
    UNION {IF rejected THEN {R(0)}
           ELSE IF dist.n = 0 THEN tiny_dist_qty(entry, max_notional)
           ELSE capped_qty(entry, RDiv(RISK_USD, dist), max_notional) :
             rejected \in FLe(dist, R(0))}

\* the set of the values compute_qty can return
compute_qty(entry, sl, balance_usd) ==
    sized_qty(entry, RAbs(RSub(entry, sl)),
              RMul(RMul(balance_usd, R(LEVERAGE)), MAX_NOTIONAL_BUF))

\* qty <= 0, a float comparison
qty_rejected(qty0) ==
    IF IsNumber(qty0) THEN FLe(qty0, R(0))
    ELSE IF IsHuge(qty0) THEN {qty0.huge < 0} ELSE BOOLEAN

\* entry + needed if side == "buy" else entry - needed, for needed =
\* MIN_TP_USD / qty: huge when the quantity is a rounded-off zero, and within
\* rounding of nothing when the quantity is huge
moved_target(entry, qty0, side) ==
    IF ~IsNumber(qty0)
    THEN (IF IsHuge(qty0) THEN [n |-> entry.n, d |-> entry.d, x |-> TRUE] ELSE AnyFloat)
    ELSE IF qty0.n = 0 THEN Huge(IF side = "buy" THEN 1 ELSE -1)
    ELSE IF side = "buy" THEN RAdd(entry, RDiv(MIN_TP_USD, qty0))
    ELSE RSub(entry, RDiv(MIN_TP_USD, qty0))

\* proj >= MIN_TP_USD for proj = abs(tp - entry) * qty, a float comparison
tp_enough(gap, qty0) ==
    IF IsNumber(qty0) THEN FGe(RMul(gap, qty0), MIN_TP_USD)
    ELSE IF IsZero(gap) THEN {FALSE}
    ELSE IF IsHuge(qty0) /\ gap.n # 0 THEN {TRUE}
    ELSE BOOLEAN

\* the target moved to entry + needed whatever the side
ensure_min_tp_buyonly(entry, tp0, qty0, side) ==
    UNION {IF rejected THEN {tp0}
           ELSE {IF enough THEN tp0 ELSE moved_target(entry, qty0, "buy") :
                   enough \in tp_enough(RAbs(RSub(tp0, entry)), qty0)} :
             rejected \in qty_rejected(qty0)}

\* the set of the targets ensure_min_tp can return
ensure_min_tp(entry, tp0, qty0, side) ==
    UNION {IF rejected THEN {tp0}
           ELSE {IF enough THEN tp0 ELSE moved_target(entry, qty0, side) :
                   enough \in tp_enough(RAbs(RSub(tp0, entry)), qty0)} :
             rejected \in qty_rejected(qty0)}

(***************************************************************************)
(* CANDLES                                                                 *)
(* A raw field is a JSON value: [t |-> "num", x |-> integer],              *)
(* [t |-> "real", v |-> float] for a number with a fraction or an          *)
(* exponent, [t |-> "bool", b |-> BOOLEAN], [t |-> "str", s |-> sequence   *)
(* of characters], or [t |-> "null"], which also stands for the lists and  *)
(* objects float() rejects as None.  A raw record is [kind |-> "list",     *)
(* f |-> fields], [kind |-> "dict", d |-> key -> field] or                 *)
(* [kind |-> "other"].                                                     *)
(***************************************************************************)
Num(x) == [t |-> "num", x |-> x]
Real(v) == [t |-> "real", v |-> v]
Bool(b) == [t |-> "bool", b |-> b]
Str(s) == [t |-> "str", s |-> s]
Null == [t |-> "null"]

Digits == <<"0", "1", "2", "3", "4", "5", "6", "7", "8", "9">>

IsDigit(ch) == \E i \in 1..Len(Digits) : Digits[i] = ch

DigitVal(ch) == (CHOOSE i \in 1..Len(Digits) : Digits[i] = ch) - 1

LowerCase == <<"a", "b", "c", "d", "e", "f", "g", "h", "i", "j", "k", "l", "m",
               "n", "o", "p", "q", "r", "s", "t", "u", "v", "w", "x", "y", "z">>
UpperCase == <<"A", "B", "C", "D", "E", "F", "G", "H", "I", "J", "K", "L", "M",
               "N", "O", "P", "Q", "R", "S", "T", "U", "V", "W", "X", "Y", "Z">>

\* str.lower and str.upper on ASCII text
lower_char(ch) ==
    IF \E i \in 1..Len(UpperCase) : UpperCase[i] = ch
    THEN LowerCase[CHOOSE i \in 1..Len(UpperCase) : UpperCase[i] = ch]
    ELSE ch

upper_char(ch) ==
    IF \E i \in 1..Len(LowerCase) : LowerCase[i] = ch
    THEN UpperCase[CHOOSE i \in 1..Len(LowerCase) : LowerCase[i] = ch]
    ELSE ch

lower(s) == [i \in 1..Len(s) |-> lower_char(s[i])]
upper(s) == [i \in 1..Len(s) |-> upper_char(s[i])]

\* the ASCII whitespace float() strips from both ends: space, \t, \n, \r,
\* \f and the vertical tab \v (character 11, written as the character itself)
VerticalTab == ""
Whitespace == {" ", "\t", "\n", "\r", "\f", VerticalTab}

RECURSIVE Pow10(_)
Pow10(k) == IF k = 0 THEN 1 ELSE 10 * Pow10(k - 1)

\* the integer written by the digit characters s[1..k]
RECURSIVE DigitsValue(_, _)
DigitsValue(s, k) ==
    IF k = 0 THEN 0 ELSE 10 * DigitsValue(s, k - 1) + DigitVal(s[k])

\* a conversion that raises (ValueError, TypeError, IndexError or KeyError)
Raised == [ok |-> FALSE, v |-> R(0)]

\* float("inf"), float("-inf") and float("nan"): values no arithmetic of the
\* model is applied to
Infinity(sign) == [inf |-> sign]
NaN == [nan |-> TRUE]

InfTexts == {<<"i", "n", "f">>, <<"i", "n", "f", "i", "n", "i", "t", "y">>}
NanText == <<"n", "a", "n">>

\* n * 10^e
Scaled(n, e) == IF e >= 0 THEN Rat(n * Pow10(e), 1) ELSE Rat(n, Pow10(-e))

\* float(str), for ASCII text and values within the integers of the model:
\* whitespace stripped at both ends, an optional sign, then inf, infinity or
\* nan in any case, or digits with at most one decimal point, at least one
\* digit, and an optional exponent e[sign]digits; an underscore may stand
\* between two digits; anything else raises ValueError.
\* nodot is the mantissa without its point, fracLen the number of its digits
\* after the point, e the exponent.
float_of_digits(sign, nodot, fracLen, e) ==
    IF Len(nodot) = 0 \/ \E i \in 1..Len(nodot) : ~IsDigit(nodot[i])
    THEN Raised
    ELSE [ok |-> TRUE,
          v |-> Scaled(sign * DigitsValue(nodot, Len(nodot)), e - fracLen)]

float_of_point(sign, u, p, e) ==
    float_of_digits(sign, SubSeq(u, 1, p - 1) \o SubSeq(u, p + 1, Len(u)), Len(u) - p, e)

float_of_mantissa(sign, u, dots, e) ==
    IF dots = {} THEN float_of_digits(sign, u, 0, e)
    ELSE IF Cardinality(dots) > 1 THEN Raised
    ELSE float_of_point(sign, u, CHOOSE i \in dots : TRUE, e)

dot_positions(u) == {i \in 1..Len(u) : u[i] = "."}

\* the exponent written after the e: [sign]digits
exponent_of_digits(sign, t) ==
    IF Len(t) = 0 \/ \E i \in 1..Len(t) : ~IsDigit(t[i])
    THEN [ok |-> FALSE, e |-> 0]
    ELSE [ok |-> TRUE, e |-> sign * DigitsValue(t, Len(t))]

exponent_of(t) ==
    IF Len(t) > 0 /\ t[1] = "-" THEN exponent_of_digits(-1, Tail(t))
    ELSE IF Len(t) > 0 /\ t[1] = "+" THEN exponent_of_digits(1, Tail(t))
    ELSE exponent_of_digits(1, t)

float_of_parts(sign, m, ex) ==
    IF ~ex.ok THEN Raised ELSE float_of_mantissa(sign, m, dot_positions(m), ex.e)

\* the text split at its first e
float_of_exp(sign, u, p) ==
    float_of_parts(sign, SubSeq(u, 1, p - 1), exponent_of(SubSeq(u, p + 1, Len(u))))

float_of_number(sign, u, es) ==
    IF es = {} THEN float_of_mantissa(sign, u, dot_positions(u), 0)
    ELSE float_of_exp(sign, u, CHOOSE p \in es : \A q \in es : p <= q)

float_of_unsigned(sign, u) ==
    IF u \in InfTexts THEN [ok |-> TRUE, v |-> Infinity(sign)]
    ELSE IF u = NanText THEN [ok |-> TRUE, v |-> NaN]
    ELSE float_of_number(sign, u, {i \in 1..Len(u) : u[i] = "e"})

float_of_signed(t) ==
    IF Len(t) > 0 /\ t[1] = "-" THEN float_of_unsigned(-1, Tail(t))
    ELSE IF Len(t) > 0 /\ t[1] = "+" THEN float_of_unsigned(1, Tail(t))
    ELSE float_of_unsigned(1, t)

\* every underscore stands between two digits
valid_underscores(t) ==
    \A i \in 1..Len(t) :
        t[i] = "_" => (i > 1 /\ i < Len(t) /\ IsDigit(t[i - 1]) /\ IsDigit(t[i + 1]))

float_of_stripped(t) ==
    IF ~valid_underscores(t) THEN Raised
    ELSE float_of_signed(SelectSeq(t, LAMBDA ch : ch # "_"))

\* s without the whitespace at its two ends; kept is the set of the
\* positions of s that hold no whitespace
strip(s, kept) ==
    IF kept = {} THEN <<>>
    ELSE SubSeq(s, CHOOSE i \in kept : \A j \in kept : i <= j,
                   CHOOSE i \in kept : \A j \in kept : i >= j)

float_of_str(s) ==
    float_of_stripped(lower(strip(s, {i \in 1..Len(s) : s[i] \notin Whitespace})))

\* float(x): the value, or ok = FALSE where Python raises
to_float(x) ==
    IF x.t = "num" THEN [ok |-> TRUE, v |-> R(x.x)]
    ELSE IF x.t = "real" THEN [ok |-> TRUE, v |-> x.v]
    ELSE IF x.t = "bool" THEN [ok |-> TRUE, v |-> IF x.b THEN R(1) ELSE R(0)]
    ELSE IF x.t = "str" THEN float_of_str(x.s)
    ELSE Raised

BarFields == <<"open", "high", "low", "close">>

\* the five conversions of one record, in the order the code evaluates them:
\* x[1..4] and x[5] if len(x) > 5 else 0.0 for a list, x["open"] .. x["close"]
\* and x.get("volume", 0.0) for a dict
field_reads(x) ==
    IF x.kind = "list" THEN
      [j \in 1..5 |->
         IF j < 5 THEN (IF Len(x.f) >= j + 1 THEN to_float(x.f[j + 1]) ELSE Raised)
         ELSE (IF Len(x.f) > 5 THEN to_float(x.f[6]) ELSE [ok |-> TRUE, v |-> R(0)])]
    ELSE
      LET dom == DOMAIN x.d
      IN  [j \in 1..5 |->
             IF j < 5 THEN (IF BarFields[j] \in dom THEN to_float(x.d[BarFields[j]]) ELSE Raised)
             ELSE (IF "volume" \in dom THEN to_float(x.d["volume"])
                   ELSE [ok |-> TRUE, v |-> R(0)])]

\* the number of conversions of a record done before the first that raises
converted(rd) ==
    IF ~rd[1].ok THEN 0 ELSE IF ~rd[2].ok THEN 1 ELSE IF ~rd[3].ok THEN 2
    ELSE IF ~rd[4].ok THEN 3 ELSE IF ~rd[5].ok THEN 4 ELSE 5

appended_values(rd) == [j \in 1..converted(rd) |-> rd[j].v]

\* one iteration of the loop of parse_candles: the values it appends to o, h,
\* l, c, v (in this order) before the first conversion that raises; a record
\* that is neither a list nor a dict appends nothing
appended(x) ==
    IF x.kind = "other" THEN <<>> ELSE appended_values(field_reads(x))

\* the list number j after the loop: the j-th value of every record that got
\* that far, in the order of the records
column(apps, j) ==
    LET kept == SelectSeq(apps, LAMBDA a : Len(a) >= j)
    IN  [i \in 1..Len(kept) |-> kept[i][j]]

columns(apps) ==
    [o |-> column(apps, 1), h |-> column(apps, 2), l |-> column(apps, 3),
     c |-> column(apps, 4), v |-> column(apps, 5)]

parse_candles(raw) == columns([i \in 1..Len(raw) |-> appended(raw[i])])

(***************************************************************************)
(* INDICATORS                                                              *)
(***************************************************************************)
\* sum(s[lo..hi])
RECURSIVE SeqSum(_, _, _)
SeqSum(s, lo, hi) ==
    IF lo > hi THEN R(0)
    ELSE IF lo = hi THEN s[lo]
    ELSE LET mid == (lo + hi) \div 2
         IN  RAdd(SeqSum(s, lo, mid), SeqSum(s, mid + 1, hi))

\* prev = (v - prev)*k + prev
ema_step(v, prev, k) == RAdd(RMul(RSub(v, prev), k), prev)

\* the values the loop over vals[lo..hi] appends, starting from prev: those of
\* the first half, then those of the second half started from the last value
\* of the first
RECURSIVE ema_loop(_, _, _, _, _)
ema_loop(vals, k, prev, lo, hi) ==
    IF lo > hi THEN <<>>
    ELSE IF lo = hi THEN <<ema_step(vals[lo], prev, k)>>
    ELSE
      LET mid == (lo + hi) \div 2
          a == ema_loop(vals, k, prev, lo, mid)
          b == ema_loop(vals, k, a[Len(a)], mid + 1, hi)
      IN  a \o b

ema_list(vals, period) ==
    IF Len(vals) < period THEN <<>>
    ELSE
      LET k == RDiv(R(2), R(period + 1))
          sma == RDiv(SeqSum(vals, 1, period), R(period))
          warm == [i \in 1..(period - 1) |-> NoneVal]
      IN  Append(warm, sma) \o ema_loop(vals, k, sma, period + 1, Len(vals))

true_range(h, l, c) ==
    [i \in 1..Len(c) |->
       IF i = 1 THEN RSub(h[i], l[i])
       ELSE RMax(RSub(h[i], l[i]),
                 RMax(RAbs(RSub(h[i], c[i - 1])), RAbs(RSub(l[i], c[i - 1]))))]

atr_list(h, l, c, period) == ema_list(true_range(h, l, c), period)

(***************************************************************************)
(* PRICE ACTION LAYER                                                      *)
(***************************************************************************)
\* s[-n:]
LastN(s, n) == IF Len(s) <= n THEN s ELSE SubSeq(s, Len(s) - n + 1, Len(s))

\* s[-(n+1):-1], the n items before the last one
PriorN(s, n) ==
    IF Len(s) = 0 THEN s
    ELSE SubSeq(s, IF Len(s) - n < 1 THEN 1 ELSE Len(s) - n, Len(s) - 1)

\* max(s[lo..hi]) and min(s[lo..hi]) of a non-empty range
RECURSIVE SeqMax(_, _, _)
SeqMax(s, lo, hi) ==
    IF lo = hi THEN s[lo]
    ELSE LET mid == (lo + hi) \div 2
         IN  RMax(SeqMax(s, lo, mid), SeqMax(s, mid + 1, hi))

RECURSIVE SeqMin(_, _, _)
SeqMin(s, lo, hi) ==
    IF lo = hi THEN s[lo]
    ELSE LET mid == (lo + hi) \div 2
         IN  RMin(SeqMin(s, lo, mid), SeqMin(s, mid + 1, hi))

SWING_LOOKBACK == 20
BOS_MIN_BARS == 25
EPS_RANGE == Rat(1, 1000000000)
BODY_RATIO == Rat(3, 5)

\* the swing window taken over the bars before the last one
recent_swings_prior(h, l, lookback) ==
    [hi |-> LET w == PriorN(h, lookback) IN SeqMax(w, 1, Len(w)),
     lo |-> LET w == PriorN(l, lookback) IN SeqMin(w, 1, Len(w))]

\* the two ends of the swing window returned in the other order
recent_swings_swapped(h, l, lookback) ==
    [hi |-> LET w == LastN(l, lookback) IN SeqMin(w, 1, Len(w)),
     lo |-> LET w == LastN(h, lookback) IN SeqMax(w, 1, Len(w))]

recent_swings(h, l, lookback) ==
    [hi |-> LET w == LastN(h, lookback) IN SeqMax(w, 1, Len(w)),
     lo |-> LET w == LastN(l, lookback) IN SeqMin(w, 1, Len(w))]

\* the outcomes of body / rng >= 0.6 for rng > 0.  The real numbers are
\* compared as body / 0.6 and rng, so that the 1e-9 floor of rng stays
\* within the integers TLC computes with; when they are equal the quotient
\* body / rng is the double of 0.6 unless it is rounded more than once, and
\* then it lies on either side.
strong_close(body, rng) ==
    IF REq(RDiv(body, BODY_RATIO), rng)
    THEN (IF DivRounds(body, rng) THEN BOOLEAN ELSE {TRUE})
    ELSE {RGt(RDiv(body, BODY_RATIO), rng)}

Last(s) == s[Len(s)]

\* rng = max(1e-9, last_h - last_l); body = abs(last_c - last_o)
last_range(h, l) == RMax(EPS_RANGE, RSub(Last(h), Last(l)))
last_body(o, c) == RAbs(RSub(Last(c), Last(o)))

\* the values bullish_bos can return
bullish_bos(o, h, l, c) ==
    IF Len(c) < BOS_MIN_BARS THEN {FALSE}
    ELSE {broke /\ strong :
            broke \in FGt(Last(c), recent_swings(h, l, SWING_LOOKBACK).hi),
            strong \in strong_close(last_body(o, c), last_range(h, l))}

\* the values bearish_bos can return
bearish_bos(o, h, l, c) ==
    IF Len(c) < BOS_MIN_BARS THEN {FALSE}
    ELSE {broke /\ strong :
            broke \in FLt(Last(c), recent_swings(h, l, SWING_LOOKBACK).lo),
            strong \in strong_close(last_body(o, c), last_range(h, l))}

(***************************************************************************)
(* The exchange.  candles[symbol][resolution] describes the bar history    *)
(* the exchange holds: n bars, of which the first n - Len(tail) are flat   *)
(* at base (open = high = low = close = base) and the last ones are the    *)
(* <<open, high, low, close>> tuples of tail.  The prices are floats, sent *)
(* as JSON numbers.  n = 0 is a history the request cannot get (no success *)
(* after the retries, or no bars).                                         *)
(***************************************************************************)
Bar(ts, b) ==
    [kind |-> "dict",
     d |-> [time |-> Num(ts), open |-> Real(b[1]), high |-> Real(b[2]),
            low |-> Real(b[3]), close |-> Real(b[4]), volume |-> Num(0)]]

History(desc) ==
    LET k == desc.n - Len(desc.tail)
    IN  [i \in 1..desc.n |->
           IF i <= k THEN Bar(i, <<desc.base, desc.base, desc.base, desc.base>>)
           ELSE Bar(i, desc.tail[i - k])]

\* the bars of the last `limit` intervals, [] when the request failed
fetch_candles(symbol, resolution, limit) ==
    LastN(History(candles[symbol][resolution]), limit)

(***************************************************************************)
(* SIGNALS                                                                 *)
(***************************************************************************)
EMA_FAST == 9
EMA_SLOW == 20
TF_LIMIT == 160
MIN_AGREE == 2
MIN_BARS_15M == 50

\* "bull" if e_fast[-1] > e_slow[-1] else "bear"
ema_dir(e_fast, e_slow) ==
    {IF above THEN "bull" ELSE "bear" : above \in FGt(e_fast, e_slow)}

\* tf_ema_dir after the candles are fetched: "none" is the None it returns
ema_cross(e_fast, e_slow) ==
    IF e_fast = <<>> \/ e_slow = <<>>
       \/ Last(e_fast) = NoneVal \/ Last(e_slow) = NoneVal
    THEN {"none"}
    ELSE ema_dir(Last(e_fast), Last(e_slow))

closes_dir(c, fast, slow) == ema_cross(ema_list(c, fast), ema_list(c, slow))

raw_dir(raw, fast, slow) ==
    IF raw = <<>> THEN {"none"} ELSE closes_dir(parse_candles(raw).c, fast, slow)

\* the directions tf_ema_dir can return
tf_ema_dir(symbol, tf) == raw_dir(fetch_candles(symbol, tf, TF_LIMIT), EMA_FAST, EMA_SLOW)

\* "bull" if c4[-1] > e200[-1] else ("bear" if c4[-1] < e200[-1] else None)
master_trend(close, ema) ==
    UNION {IF above THEN {"bull"}
           ELSE {IF below THEN "bear" ELSE "none" : below \in FLt(close, ema)} :
             above \in FGt(close, ema)}

\* the agreement gate left open
agree_too_low_never(agree) == FALSE

agree_too_low(agree) == agree < MIN_AGREE

\* c15[-1] > swing_hi + ATR_ENTRY_MULT*atr and bullish_bos(o15, h15, l15, c15)
long_trigger(p, atr) ==
    {above /\ bos :
       above \in FGt(Last(p.c), RAdd(recent_swings(p.h, p.l, SWING_LOOKBACK).hi,
                                     RMul(ATR_ENTRY_MULT, atr))),
       bos \in bullish_bos(p.o, p.h, p.l, p.c)}

\* c15[-1] < swing_lo - ATR_ENTRY_MULT*atr and bearish_bos(o15, h15, l15, c15)
short_trigger(p, atr) ==
    {below /\ bos :
       below \in FLt(Last(p.c), RSub(recent_swings(p.h, p.l, SWING_LOOKBACK).lo,
                                     RMul(ATR_ENTRY_MULT, atr))),
       bos \in bearish_bos(p.o, p.h, p.l, p.c)}

EntryTfs == {ENTRY_TFS[i] : i \in 1..Len(ENTRY_TFS)}

\* the dict detect_signal returns
signal(symbol, side, entry, sl, target, atr, agree, dirs, master, swings) ==
    [symbol |-> symbol, side |-> side, entry |-> entry, sl |-> sl,
     tp |-> target, atr |-> atr, ema_agree |-> agree, ema_dirs |-> dirs,
     master_trend |-> master, swing_high |-> swings.hi, swing_low |-> swings.lo]

\* the end of detect_signal, from the two triggers on
triggered_signal(symbol, master, dirs, agree, entry, atr, swings, long_trig, short_trig) ==
    IF master = "bull" /\ long_trig THEN
      LET sl == RSub(entry, RMul(ATR_SL_MULT, atr))
      IN  signal(symbol, "buy", entry, sl, RAdd(entry, RMul(TP_RR, RSub(entry, sl))),
                 atr, agree, dirs, master, swings)
    ELSE IF master = "bear" /\ short_trig THEN
      LET sl == RAdd(entry, RMul(ATR_SL_MULT, atr))
      IN  signal(symbol, "sell", entry, sl, RSub(entry, RMul(TP_RR, RSub(sl, entry))),
                 atr, agree, dirs, master, swings)
    ELSE NoneVal

\* detect_signal from the ATR on
breakout_signals(symbol, master, dirs, agree, p, atr) ==
    {triggered_signal(symbol, master, dirs, agree, Last(p.c), atr,
                      recent_swings(p.h, p.l, SWING_LOOKBACK), long_trig, short_trig) :
       long_trig \in long_trigger(p, atr), short_trig \in short_trigger(p, atr)}

\* detect_signal from the parsed 15m candles on
parsed_signals(symbol, master, dirs, agree, p) ==
    IF Len(p.c) < MIN_BARS_15M THEN {NoneVal}
    ELSE
      LET atrs == atr_list(p.h, p.l, p.c, ATR_LEN)
      IN  IF atrs = <<>> \/ Last(atrs) = NoneVal THEN {NoneVal}
          ELSE breakout_signals(symbol, master, dirs, agree, p, Last(atrs))

\* detect_signal from the agreement count on
agreed_signals(symbol, master, dirs, agree, raw15) ==
    IF agree_too_low(agree) THEN {NoneVal}
    ELSE IF raw15 = <<>> THEN {NoneVal}
    ELSE parsed_signals(symbol, master, dirs, agree, parse_candles(raw15))

\* detect_signal once the directions of the entry timeframes are known
counted_signals(symbol, master, dirs) ==
    agreed_signals(symbol, master, dirs,
                   Cardinality({tf \in EntryTfs : dirs[tf] = master}),
                   fetch_candles(symbol, "15m", CANDLES_15M))

\* the dicts dirs the loop over ENTRY_TFS can build: per_tf[tf] is the set of
\* the directions tf_ema_dir can return for tf
tf_dirs(per_tf) ==
    {[tf \in EntryTfs |->
        IF tf = ENTRY_TFS[1] THEN d1 ELSE IF tf = ENTRY_TFS[2] THEN d2
        ELSE IF tf = ENTRY_TFS[3] THEN d3 ELSE d4] :
       d1 \in per_tf[ENTRY_TFS[1]], d2 \in per_tf[ENTRY_TFS[2]],
       d3 \in per_tf[ENTRY_TFS[3]], d4 \in per_tf[ENTRY_TFS[4]]}

\* detect_signal once the master trend is known
trend_signals(symbol, master) ==
    IF master = "none" THEN {NoneVal}
    ELSE UNION {counted_signals(symbol, master, dirs) :
                  dirs \in tf_dirs([tf \in EntryTfs |-> tf_ema_dir(symbol, tf)])}

\* detect_signal from the 200 EMA on
filtered_signals(symbol, c4, e200) ==
    IF e200 = <<>> \/ Last(e200) = NoneVal THEN {NoneVal}
    ELSE UNION {trend_signals(symbol, master) :
                  master \in master_trend(Last(c4), Last(e200))}

closes_signals(symbol, c4) == filtered_signals(symbol, c4, ema_list(c4, EMA_200_PERIOD))

raw_signals(symbol, raw4h) ==
    IF raw4h = <<>> THEN {NoneVal}
    ELSE closes_signals(symbol, parse_candles(raw4h).c)

\* the set of the values detect_signal can return, NoneVal for None
detect_signal(symbol) == raw_signals(symbol, fetch_candles(symbol, "4h", CANDLES_4H))

(***************************************************************************)
(* ACCOUNT, POSITIONS / ORDERS                                             *)
(* wallet is the answer of /v2/wallet/balances: [success, result], result  *)
(* the rows [asset_symbol, available_balance, balance] of raw JSON fields, *)
(* Null for a key the row does not have; asset_symbol is a text or Null.   *)
(* positions is the list of rows [product_id, size] the positions          *)
(* endpoints answer.                                                       *)
(***************************************************************************)
MIN_BALANCE == Rat(1, 100)

UsdAssets == {<<"U", "S", "D">>, <<"U", "S", "D", "T">>, <<"U", "S", "D", "C">>}

\* the truth value of a JSON value: None, 0, 0.0, False and "" are false
Truthy(x) ==
    IF x.t = "num" THEN x.x # 0
    ELSE IF x.t = "real" THEN x.v.n # 0
    ELSE IF x.t = "bool" THEN x.b
    ELSE IF x.t = "str" THEN Len(x.s) > 0
    ELSE FALSE

\* a or b
Or(a, b) == IF Truthy(a) THEN a ELSE b

\* (r.get("asset_symbol") or "").upper() in ("USD","USDT","USDC")
is_usd(r) == r.asset_symbol.t = "str" /\ upper(r.asset_symbol.s) \in UsdAssets

\* float(r.get("available_balance") or r.get("balance") or 0.0)
row_balance(r) == to_float(Or(Or(r.available_balance, r.balance), Real(R(0))))

\* float(data["result"][0].get("available_balance") or 0.0)
first_row_balance(rows) ==
    IF Len(rows) = 0 THEN Raised
    ELSE to_float(Or(rows[1].available_balance, Real(R(0))))

value_or_zero(f) == IF f.ok THEN f.v ELSE R(0)

\* usable is the set of the USD rows whose balance converts: the first of
\* them is returned, else the first row of the answer, else 0.0
balance_of(rows, usable) ==
    IF usable # {}
    THEN row_balance(rows[CHOOSE i \in usable : \A j \in usable : i <= j]).v
    ELSE value_or_zero(first_row_balance(rows))

rows_balance(rows) ==
    balance_of(rows, {i \in 1..Len(rows) : is_usd(rows[i]) /\ row_balance(rows[i]).ok})

get_balance_usd ==
    IF ~wallet.success THEN R(0) ELSE rows_balance(wallet.result)

has_open_position(product_id) ==
    \E i \in 1..Len(positions) :
        positions[i].product_id = product_id
        /\ TRUE \in FGt(RAbs(positions[i].size), R(0))

\* the answers private_post can give: the dry-run stub when LIVE_TRADING is
\* off, else what the exchange (or the network) answers
PostResponses ==
    IF LIVE_TRADING
    THEN {[success |-> TRUE, dry_run |-> FALSE],
          [success |-> FALSE, dry_run |-> FALSE]}
    ELSE {[success |-> TRUE, dry_run |-> TRUE]}

place_market(product_id, side, size_qty) ==
    [order_type |-> "market", product_id |-> product_id, size |-> size_qty,
     side |-> side, reduce_only |-> FALSE, price |-> NoneVal]

place_limit_reduce(product_id, side, size_qty, limit_price) ==
    [order_type |-> "limit", product_id |-> product_id, size |-> size_qty,
     side |-> side, reduce_only |-> TRUE, price |-> limit_price]

place_stop_market(product_id, side, size_qty, stop_price) ==
    [order_type |-> "stop_market", product_id |-> product_id, size |-> size_qty,
     side |-> side, reduce_only |-> TRUE, price |-> stop_price]

(***************************************************************************)
(* RUN LOGIC: run_once, one action per step between two calls of the       *)
(* exchange.  orders is the list of the requests the current run_once has  *)
(* posted, res the answer to its entry order.                              *)
(***************************************************************************)
MaxCycles == 2

\* the protective orders placed whatever the entry answered
entry_succeeded_always(r) == TRUE

\* res.get("success")
entry_succeeded(r) == r.success

\* the scan going on with the next symbol after an entry order
after_order_continue(i) == i + 1

\* break: the loop index is left where it is, the loop is over
after_order(i) == i

\* get_balance_usd and the balance check
RunStart ==
    /\ pc = "run_once"
    /\ bal' = get_balance_usd
    /\ \E low \in FLt(get_balance_usd, MIN_BALANCE) :
         IF low
         THEN pc' = "sleep" /\ idx' = idx
         ELSE pc' = "scan" /\ idx' = 1
    /\ UNCHANGED <<args, ret, envVars, cycle, sig, qty, tp, res, orders>>

\* one iteration of the loop over WATCHLIST, up to the entry order
Scan ==
    /\ pc = "scan"
    /\ idx <= Len(WATCHLIST)
    /\ IF product_map[WATCHLIST[idx]] = 0 THEN
         /\ idx' = idx + 1
         /\ UNCHANGED <<pc, sig, qty, tp>>
       ELSE
         \E s \in detect_signal(WATCHLIST[idx]) :
           IF s = NoneVal THEN
             /\ idx' = idx + 1 /\ sig' = s
             /\ UNCHANGED <<pc, qty, tp>>
           ELSE IF has_open_position(product_map[WATCHLIST[idx]]) THEN
             /\ idx' = idx + 1 /\ sig' = s
             /\ UNCHANGED <<pc, qty, tp>>
           ELSE
             \E q \in compute_qty(s.entry, s.sl, bal) :
               IF q = ZeroDivisionError THEN
                 \* the exception leaves run_once for the handler of the main loop
                 /\ sig' = s /\ tp' = s.tp
                 /\ pc' = "sleep"
                 /\ UNCHANGED <<idx, qty>>
               ELSE
                 \E rejected \in qty_rejected(q) :
                   IF rejected THEN
                     /\ idx' = idx + 1 /\ sig' = s /\ qty' = q /\ tp' = s.tp
                     /\ UNCHANGED pc
                   ELSE
                     /\ sig' = s /\ qty' = q
                     /\ tp' \in ensure_min_tp(s.entry, s.tp, q, s.side)
                     /\ pc' = "entry"
                     /\ idx' = idx
    /\ UNCHANGED <<args, ret, envVars, cycle, bal, res, orders>>

\* the watchlist is exhausted
ScanEnd ==
    /\ pc = "scan"
    /\ idx > Len(WATCHLIST)
    /\ pc' = "sleep"
    /\ UNCHANGED <<args, ret, envVars, runVars>>

\* res = place_market(pid, side, qty)
PlaceEntry ==
    /\ pc = "entry"
    /\ \E r \in PostResponses :
         /\ res' = r
         /\ orders' = Append(orders, place_market(product_map[WATCHLIST[idx]], sig.side, qty))
         /\ IF entry_succeeded(r)
            THEN pc' = "tp" /\ idx' = idx
            ELSE /\ idx' = after_order(idx)
                 /\ pc' = IF idx' = idx THEN "sleep" ELSE "scan"
    /\ UNCHANGED <<args, ret, envVars, cycle, bal, sig, qty, tp>>

ReduceSide == IF sig.side = "buy" THEN "sell" ELSE "buy"

\* tp_res = place_limit_reduce(pid, reduce_side, qty, tp)
PlaceTp ==
    /\ pc = "tp"
    /\ orders' = Append(orders,
                   place_limit_reduce(product_map[WATCHLIST[idx]], ReduceSide, qty, tp))
    /\ pc' = "sl"
    /\ UNCHANGED <<args, ret, envVars, cycle, bal, idx, sig, qty, tp, res>>

\* sl_res = place_stop_market(pid, reduce_side, qty, sl), then break
PlaceSl ==
    /\ pc = "sl"
    /\ orders' = Append(orders,
                   place_stop_market(product_map[WATCHLIST[idx]], ReduceSide, qty, sig.sl))
    /\ idx' = after_order(idx)
    /\ pc' = IF idx' = idx THEN "sleep" ELSE "scan"
    /\ UNCHANGED <<args, ret, envVars, cycle, bal, sig, qty, tp, res>>

\* the main loop: sleep, then the next run_once with fresh locals
Sleep ==
    /\ pc = "sleep"
    /\ cycle < MaxCycles
    /\ cycle' = cycle + 1
    /\ pc' = "run_once"
    /\ bal' = R(0) /\ idx' = 0 /\ sig' = NoneVal /\ qty' = R(0) /\ tp' = R(0)
    /\ res' = NoneVal /\ orders' = <<>>
    /\ UNCHANGED <<args, ret, envVars>>

(***************************************************************************)
(* Calls of the pure functions: the arguments are drawn in the initial     *)
(* state, the call stores what the function returns.                       *)
(***************************************************************************)
NoSymbols == [s \in {} |-> 0]

IdleEnv ==
    /\ LIVE_TRADING = FALSE
    /\ product_map = NoSymbols
    /\ candles = NoSymbols
    /\ positions = <<>>
    /\ wallet = NoneVal

IdleRun ==
    /\ cycle = 0
    /\ bal = R(0)
    /\ idx = 0
    /\ sig = NoneVal
    /\ qty = R(0)
    /\ tp = R(0)
    /\ res = NoneVal
    /\ orders = <<>>

\* input bounds
MaxHalfPrice == 12
MaxBalCents == 3

\* halves, 0.3 as written and as the sum 0.1 + 0.2 (a rounded value), and
\* larger prices
Prices == {Rat(k, 2) : k \in 0..MaxHalfPrice}
            \cup {Rat(3, 10), RAdd(Rat(1, 10), Rat(2, 10)), Rat(19, 2), R(100), R(950)}
Balances == {Rat(b, 100) : b \in 0..MaxBalCents} \cup {R(1), R(10)}
Quantities == {R(0), Rat(-1, 100), Rat(1, QTY_STEPS), Rat(1, 100), Rat(31666, QTY_STEPS),
               Rat(7, 10), R(1), R(2)}

InitQty ==
    /\ pc = "call"
    /\ args \in [fn : {"compute_qty"}, entry : Prices, sl : Prices, balance_usd : Balances]
    /\ ret = NoneVal
    /\ IdleEnv /\ IdleRun

CallComputeQty ==
    /\ pc = "call" /\ args.fn = "compute_qty"
    /\ ret' \in compute_qty(args.entry, args.sl, args.balance_usd)
    /\ pc' = "done"
    /\ UNCHANGED <<args, envVars, runVars>>

NextQty == CallComputeQty

SpecQty == InitQty /\ [][NextQty]_vars

InitTp ==
    /\ pc = "call"
    /\ args \in [fn : {"ensure_min_tp"}, entry : Prices, tp : Prices,
                 qty : Quantities, side : {"buy", "sell"}]
    /\ ret = NoneVal
    /\ IdleEnv /\ IdleRun

CallEnsureMinTp ==
    /\ pc = "call" /\ args.fn = "ensure_min_tp"
    /\ ret' \in ensure_min_tp(args.entry, args.tp, args.qty, args.side)
    /\ pc' = "done"
    /\ UNCHANGED <<args, envVars, runVars>>

NextTp == CallEnsureMinTp

SpecTp == InitTp /\ [][NextTp]_vars

\* bars of the break-of-structure inputs: the bars before the last one all
\* have the same high and low, the last bar is drawn freely, bars with
\* high < low included (parse_candles checks no ordering of the fields), and
\* prices that are no binary fractions
MaxExtraBars == 1
BarValues == {R(5), R(10), R(12), R(17), R(20), Rat(101, 10), Rat(131, 10)}
PriorBars == {<<10, 8>>, <<10, 17>>, <<15, 12>>}

BosSeries(n, prior, x) == [i \in 1..n |-> IF i < n THEN R(prior) ELSE x]

InitBos ==
    /\ pc = "call"
    /\ \E n \in (BOS_MIN_BARS - 1)..(BOS_MIN_BARS + MaxExtraBars), p \in PriorBars,
          lo \in BarValues, lh \in BarValues, ll \in BarValues, lc \in BarValues :
          args = [fn |-> "bos",
                  o |-> BosSeries(n, p[1], lo), h |-> BosSeries(n, p[1], lh),
                  l |-> BosSeries(n, p[2], ll), c |-> BosSeries(n, p[1], lc)]
    /\ ret = NoneVal
    /\ IdleEnv /\ IdleRun

CallBos ==
    /\ pc = "call" /\ args.fn = "bos"
    /\ \E bull \in bullish_bos(args.o, args.h, args.l, args.c),
          bear \in bearish_bos(args.o, args.h, args.l, args.c) :
          ret' = [bull |-> bull, bear |-> bear]
    /\ pc' = "done"
    /\ UNCHANGED <<args, envVars, runVars>>

NextBos == CallBos

SpecBos == InitBos /\ [][NextBos]_vars

\* raw records of the parser inputs
MaxRaw == 2

GoodList == <<Num(0), Num(10), Str(<<"1", "2">>), Num(8), Str(<<"9", ".", "5">>), Num(3)>>
FloatList == <<Num(0), Str(<<" ", "+", "1", "e", "1", VerticalTab>>), Real(Rat(19, 2)), Bool(TRUE),
               Str(<<"1", "_", "0">>), Str(<<"I", "n", "f">>)>>
BadFields == {Str(<<"x">>), Str(<<>>), Null}

ListRecords ==
    {[kind |-> "list", f |-> SubSeq(GoodList, 1, n)] : n \in 0..6}
    \cup {[kind |-> "list", f |-> [GoodList EXCEPT ![j] = b]] : j \in 2..6, b \in BadFields}
    \cup {[kind |-> "list", f |-> FloatList]}

BarKeys == {"time", "open", "high", "low", "close", "volume"}
GoodDict == [time |-> Num(0), open |-> Str(<<"1", "0">>), high |-> Num(12),
             low |-> Str(<<"-", "8">>), close |-> Num(9), volume |-> Num(3)]

DictRecords ==
    {[kind |-> "dict", d |-> [k \in BarKeys \ {m} |-> GoodDict[k]]] : m \in BarKeys}
    \cup {[kind |-> "dict", d |-> [GoodDict EXCEPT ![k] = b]] :
            k \in BarKeys \ {"time"}, b \in {Str(<<"1", "e">>), Null}}
    \cup {[kind |-> "dict", d |-> GoodDict]}

RawRecords == ListRecords \cup DictRecords \cup {[kind |-> "other"]}

RawLists == UNION {[1..n -> RawRecords] : n \in 0..MaxRaw}

InitParse ==
    /\ pc = "call"
    /\ args \in [fn : {"parse_candles"}, raw : RawLists]
    /\ ret = NoneVal
    /\ IdleEnv /\ IdleRun

CallParseCandles ==
    /\ pc = "call" /\ args.fn = "parse_candles"
    /\ ret' = parse_candles(args.raw)
    /\ pc' = "done"
    /\ UNCHANGED <<args, envVars, runVars>>

NextParse == CallParseCandles

SpecParse == InitParse /\ [][NextParse]_vars

\* histories of the signal inputs
Hist(n, base, tail) == [n |-> n, base |-> base, tail |-> tail]

\* a bar of whole prices
IntBar(b) == [j \in 1..4 |-> R(b[j])]

NoHistory == Hist(0, R(0), <<>>)

UpBar == IntBar(<<100, 110, 100, 110>>)
DownBar == IntBar(<<100, 100, 90, 90>>)

\* 4h: unavailable; one bar short of the EMA; exactly the EMA period with a
\* last close above the average; flat; last close below / above the EMA
H4Histories ==
    {NoHistory,
     Hist(EMA_200_PERIOD - 1, R(100), <<>>),
     Hist(EMA_200_PERIOD, R(100), <<UpBar>>),
     Hist(EMA_200_PERIOD + 1, R(100), <<>>),
     Hist(EMA_200_PERIOD + 1, R(100), <<DownBar>>),
     Hist(EMA_200_PERIOD + 1, R(100), <<UpBar>>)}

\* flat at a whole price, and flat at 0.7, which is no binary fraction
TfFlat == Hist(EMA_SLOW, R(100), <<>>)
TfFlatDecimal == Hist(EMA_SLOW, Rat(7, 10), <<>>)
TfUp == Hist(EMA_SLOW + 1, R(100), <<UpBar>>)
TfDown == Hist(EMA_SLOW + 1, R(100), <<DownBar>>)
TfShort == Hist(EMA_SLOW - 1, R(100), <<UpBar>>)

BreakoutBar == IntBar(<<100, 101, 100, 110>>)
BreakdownBar == IntBar(<<100, 100, 99, 90>>)

\* 15m: the last bar of a flat history
LastBars15 ==
    {IntBar(<<100, 100, 100, 100>>),   \* flat
     BreakoutBar,                      \* close above the bar's high and the swing high
     BreakdownBar,                     \* close below the bar's low and the swing low
     UpBar,                            \* breakout above the prior highs, close = high
     DownBar,                          \* breakdown below the prior lows, close = low
     IntBar(<<108, 105, 95, 110>>),    \* close above the high, weak body
     IntBar(<<0, 101, 0, 105>>),       \* close above the high within the ATR margin
     IntBar(<<100, 100, 100, 110>>),   \* close above a zero-range bar
     IntBar(<<100, 100, 100, 90>>),    \* close below a zero-range bar
     <<Rat(1071, 10), R(105), R(100), Rat(1101, 10)>>}
                                       \* close above the high, body 0.6 of the range

M15Histories ==
    {NoHistory}
    \cup {Hist(MIN_BARS_15M, R(100), <<b>>) : b \in LastBars15}
    \cup {Hist(MIN_BARS_15M - 1, R(100), <<b>>) : b \in {BreakoutBar, BreakdownBar}}

Resolutions == {"4h", "15m", "30m", "1h", "2h"}

Markets ==
    {[r \in Resolutions |->
        CASE r = "4h" -> h4 [] r = "15m" -> m15 [] r = "30m" -> m30
          [] r = "1h" -> h1 [] r = "2h" -> h2] :
     h4 \in H4Histories, m15 \in M15Histories,
     m30 \in {NoHistory, TfShort, TfFlat, TfUp, TfDown},
     h1 \in {TfFlat, TfFlatDecimal, TfUp, TfDown}, h2 \in {TfUp, TfDown}}

Symbols == {WATCHLIST[i] : i \in 1..Len(WATCHLIST)}

NoMarket == [r \in Resolutions |-> NoHistory]

InitSignal ==
    /\ pc = "call"
    /\ args = [fn |-> "detect_signal", symbol |-> WATCHLIST[1]]
    /\ ret = NoneVal
    /\ LIVE_TRADING = FALSE
    /\ product_map = NoSymbols
    /\ \E m \in Markets :
          candles = [s \in Symbols |-> IF s = WATCHLIST[1] THEN m ELSE NoMarket]
    /\ positions = <<>>
    /\ wallet = NoneVal
    /\ IdleRun

CallDetectSignal ==
    /\ pc = "call" /\ args.fn = "detect_signal"
    /\ ret' \in detect_signal(args.symbol)
    /\ pc' = "done"
    /\ UNCHANGED <<args, envVars, runVars>>

NextSignal == CallDetectSignal

SpecSignal == InitSignal /\ [][NextSignal]_vars

\* environments of run_once
FlatMarket ==
    [r \in Resolutions |->
        IF r = "4h" THEN Hist(EMA_200_PERIOD + 1, R(100), <<>>)
        ELSE IF r = "15m" THEN Hist(MIN_BARS_15M, R(100), <<>>) ELSE TfFlat]

BuyMarket(last15) ==
    [r \in Resolutions |->
        IF r = "4h" THEN Hist(EMA_200_PERIOD + 1, R(100), <<UpBar>>)
        ELSE IF r = "15m" THEN Hist(MIN_BARS_15M, R(100), <<last15>>)
        ELSE IF r = "30m" THEN TfUp ELSE TfDown]

SellMarket(last15) ==
    [r \in Resolutions |->
        IF r = "4h" THEN Hist(EMA_200_PERIOD + 1, R(100), <<DownBar>>)
        ELSE IF r = "15m" THEN Hist(MIN_BARS_15M, R(100), <<last15>>)
        ELSE IF r = "30m" THEN TfDown ELSE TfUp]

\* a breakout whose second agreeing timeframe is flat at a decimal price: the
\* rounding of its two EMAs decides between a buy and no signal
EdgeMarket ==
    [r \in Resolutions |->
        IF r = "30m" THEN TfFlatDecimal ELSE BuyMarket(BreakoutBar)[r]]

\* no signal; a buy; a sell; a buy with ATR 0 (stop = entry, quantity 0); a
\* buy or no signal
RunMarkets1 == {FlatMarket, BuyMarket(BreakoutBar), SellMarket(BreakdownBar),
                BuyMarket(IntBar(<<100, 100, 100, 110>>)), EdgeMarket}
RunMarkets2 == {FlatMarket, BuyMarket(BreakoutBar), SellMarket(BreakdownBar)}
RunMarkets3 == {FlatMarket, SellMarket(BreakdownBar)}

ProductMaps ==
    {[s \in Symbols |-> CASE s = "BTCUSD" -> 27 [] s = "ETHUSD" -> 3136 [] OTHER -> 14823],
     [s \in Symbols |-> CASE s = "BTCUSD" -> 27 [] s = "ETHUSD" -> 0 [] OTHER -> 14823]}

PositionLists ==
    {<<>>,
     <<[product_id |-> 3136, size |-> R(0)], [product_id |-> 27, size |-> R(-2)]>>}

Row(symbol, available, balance) ==
    [asset_symbol |-> symbol, available_balance |-> available, balance |-> balance]

\* no answer; a lower-case USD row with an empty available balance and too
\* little in balance; no USD row, the first row taken; a USD row whose
\* balance does not convert, then one whose available balance is the text "0"
Wallets ==
    {[success |-> FALSE, result |-> <<>>],
     [success |-> TRUE,
      result |-> <<Row(Str(<<"B", "T", "C">>), Num(5), Num(5)),
                   Row(Str(<<"u", "s", "d", "t">>), Num(0), Real(Rat(1, 200)))>>],
     [success |-> TRUE,
      result |-> <<Row(Str(<<"I", "N", "R">>), Num(10), Num(12))>>],
     [success |-> TRUE,
      result |-> <<Row(Str(<<"U", "S", "D">>), Str(<<"x">>), Num(3)),
                   Row(Str(<<"U", "s", "d", "c">>), Str(<<"0">>), Num(7))>>]}

InitRun ==
    /\ pc = "run_once"
    /\ args = NoneVal
    /\ ret = NoneVal
    /\ LIVE_TRADING \in BOOLEAN
    /\ product_map \in ProductMaps
    /\ \E m1 \in RunMarkets1, m2 \in RunMarkets2, m3 \in RunMarkets3 :
          candles = [s \in Symbols |->
                       CASE s = "BTCUSD" -> m1 [] s = "ETHUSD" -> m2 [] OTHER -> m3]
    /\ positions \in PositionLists
    /\ wallet \in Wallets
    /\ cycle = 1
    /\ bal = R(0) /\ idx = 0 /\ sig = NoneVal /\ qty = R(0) /\ tp = R(0)
    /\ res = NoneVal /\ orders = <<>>

NextRun ==
    \/ RunStart
    \/ Scan
    \/ ScanEnd
    \/ PlaceEntry
    \/ PlaceTp
    \/ PlaceSl
    \/ Sleep

SpecRun == InitRun /\ [][NextRun]_vars

(***************************************************************************)
(* Claims                                                                  *)
(***************************************************************************)
MaxNotional(b) == RMul(RMul(b, R(LEVERAGE)), MAX_NOTIONAL_BUF)

\* C1: for entry >= 0 and balance >= 0 the quantity q returned by compute_qty
\* satisfies q * entry <= balance * LEVERAGE * MAX_NOTIONAL_BUF and q >= 0:
\* the comparison of the two float products holds however they are rounded.
C1_NotionalCapped ==
    (pc = "done" /\ args.fn = "compute_qty") =>
        /\ FLe(RMul(ret, args.entry), MaxNotional(args.balance_usd)) = {TRUE}
        /\ RGe(ret, R(0))

\* the projected profit |target - entry| * quantity, as a float
Projected(a) == RMul(RAbs(RSub(a.tp, a.entry)), a.qty)

\* C2: ensure_min_tp returns the target unchanged when quantity <= 0 or when
\* |target - entry| * quantity >= MIN_TP_USD; otherwise the new target has
\* |newTarget - entry| * quantity = MIN_TP_USD, above entry for a buy and
\* below entry for a sell.  The projected profit is the float product: where
\* its rounding decides the comparison, either case is the one that applies.
C2_MinTp ==
    (pc = "done" /\ args.fn = "ensure_min_tp") =>
        IF RLe(args.qty, R(0)) THEN REq(ret, args.tp)
        ELSE \E enough \in FGe(Projected(args), MIN_TP_USD) :
               IF enough THEN REq(ret, args.tp)
               ELSE /\ REq(RMul(RAbs(RSub(ret, args.entry)), args.qty), MIN_TP_USD)
                    /\ (args.side = "buy" => RGt(ret, args.entry))
                    /\ (args.side = "sell" => RLt(ret, args.entry))

\* C2 witness: a sell whose projected profit was below the floor got a new
\* target below entry
C2_Witness ==
    /\ pc = "done" /\ args.fn = "ensure_min_tp"
    /\ args.side = "sell"
    /\ RGt(args.qty, R(0))
    /\ RLt(Projected(args), MIN_TP_USD)
    /\ ~REq(ret, args.tp)
    /\ RLt(ret, args.entry)

\* the outcomes of body / range >= 0.6 on the last candle
BodyOverRange(a) == strong_close(last_body(a.o, a.c), last_range(a.h, a.l))

PriorSwingHigh(a) == LET w == PriorN(a.h, SWING_LOOKBACK) IN SeqMax(w, 1, Len(w))

\* C4: for a series of at least 25 bars whose final close exceeds the swing
\* high of the prior 20 bars, bullish_bos is true when the final candle's
\* body/range ratio is >= 0.6 and false when it is below 0.6.
C4_BosOnPriorSwing ==
    (pc = "done" /\ args.fn = "bos" /\ Len(args.c) >= BOS_MIN_BARS
       /\ RGt(Last(args.c), PriorSwingHigh(args))) =>
        \E strong \in BodyOverRange(args) : ret.bull <=> strong

WindowHigh(a) == LET w == LastN(a.h, SWING_LOOKBACK) IN SeqMax(w, 1, Len(w))
WindowLow(a) == LET w == LastN(a.l, SWING_LOOKBACK) IN SeqMin(w, 1, Len(w))

\* C5 as stated: for every input series bullish_bos and bearish_bos are never
\* both true on the same arguments.
C5_Original ==
    (pc = "done" /\ args.fn = "bos") => ~(ret.bull /\ ret.bear)

\* C5 amended: when the highest high of the 20-bar swing window is not below
\* its lowest low, bullish_bos and bearish_bos are never both true on the
\* same arguments.
C5_ExclusiveOnOrderedWindow ==
    (pc = "done" /\ args.fn = "bos" /\ RGe(WindowHigh(args), WindowLow(args))) =>
        ~(ret.bull /\ ret.bear)

\* C5 witness: an ordered window on which one of the two breaks was found
C5_Witness ==
    /\ pc = "done" /\ args.fn = "bos"
    /\ RGe(WindowHigh(args), WindowLow(args))
    /\ ret.bear /\ ~ret.bull

CompleteRecord(x) == x.kind # "other" /\ \A j \in 1..5 : field_reads(x)[j].ok

\* C6: parse_candles returns open, high, low, close and volume sequences of
\* the same length, the number of records that parsed completely; a record
\* with a missing or non-numeric field contributes to none of them.
C6_ParallelSequences ==
    (pc = "done" /\ args.fn = "parse_candles") =>
        LET n == Cardinality({i \in 1..Len(args.raw) : CompleteRecord(args.raw[i])})
        IN  /\ Len(ret.o) = n /\ Len(ret.h) = n /\ Len(ret.l) = n
            /\ Len(ret.c) = n /\ Len(ret.v) = n

\* the inputs of detect_signal, read again from the exchange
Closes(symbol, r, limit) == parse_candles(fetch_candles(symbol, r, limit)).c

LastEma(symbol, r, limit, period) == Last(ema_list(Closes(symbol, r, limit), period))

HasEma(symbol, r, limit, period) == Len(Closes(symbol, r, limit)) >= period

\* m is a master trend the 4h filter can find
MasterIs(symbol, m) ==
    /\ HasEma(symbol, "4h", CANDLES_4H, EMA_200_PERIOD)
    /\ m \in master_trend(Last(Closes(symbol, "4h", CANDLES_4H)),
                          LastEma(symbol, "4h", CANDLES_4H, EMA_200_PERIOD))

\* m is a direction the timeframe can have
TfAgrees(symbol, tf, m) ==
    /\ HasEma(symbol, tf, TF_LIMIT, EMA_SLOW)
    /\ m \in tf_ema_dir(symbol, tf)

AgreeCount(symbol, m) == Cardinality({tf \in EntryTfs : TfAgrees(symbol, tf, m)})

Parsed15(symbol) == parse_candles(fetch_candles(symbol, "15m", CANDLES_15M))

TriggerReady(symbol) == Len(Parsed15(symbol).c) >= MIN_BARS_15M

Atr15(symbol) ==
    LET p == Parsed15(symbol) IN Last(atr_list(p.h, p.l, p.c, ATR_LEN))

\* C3: detect_signal returns a buy only when the master trend is bull, at
\* least 2 entry timeframes have the master's direction and the long trigger
\* holds; a sell only when the master trend is bear, at least 2 agree and the
\* short trigger holds; in every other combination it returns no signal.
C3_SignalGates ==
    (pc = "done" /\ args.fn = "detect_signal" /\ ret # NoneVal) =>
        LET s == args.symbol
            m == IF ret.side = "buy" THEN "bull" ELSE "bear"
        IN  /\ ret.side \in {"buy", "sell"}
            /\ MasterIs(s, m)
            /\ AgreeCount(s, m) >= 2
            /\ ret.ema_agree >= 2
            /\ TriggerReady(s)
            /\ IF ret.side = "buy" THEN TRUE \in long_trigger(Parsed15(s), Atr15(s))
               ELSE TRUE \in short_trigger(Parsed15(s), Atr15(s))

\* C3 witness: a buy signal was returned
C3_Witness ==
    /\ pc = "done" /\ args.fn = "detect_signal"
    /\ ret # NoneVal
    /\ ret.side = "buy"
    /\ ret.ema_agree = 2

\* the two floats are the same number, whatever was rounded on the way
SameFloat(a, b) == FLt(a, b) = {FALSE} /\ FGt(a, b) = {FALSE}

\* the fast and the slow EMA of the timeframe are the same number
FastEqSlow(symbol, tf) ==
    /\ HasEma(symbol, tf, TF_LIMIT, EMA_SLOW)
    /\ SameFloat(LastEma(symbol, tf, TF_LIMIT, EMA_FAST),
                 LastEma(symbol, tf, TF_LIMIT, EMA_SLOW))

AllFlat(symbol) ==
    /\ \A tf \in EntryTfs : FastEqSlow(symbol, tf)
    /\ HasEma(symbol, "4h", CANDLES_4H, EMA_200_PERIOD)
    /\ SameFloat(Last(Closes(symbol, "4h", CANDLES_4H)),
                 LastEma(symbol, "4h", CANDLES_4H, EMA_200_PERIOD))

\* C7: a timeframe whose fast EMA equals its slow EMA has no direction and is
\* counted in the agreement count for neither master trend; a symbol whose
\* every series is flat yields no signal.
C7_FlatTimeframeNotCounted ==
    (pc = "done" /\ args.fn = "detect_signal") =>
        /\ AllFlat(args.symbol) => ret = NoneVal
        /\ ret # NoneVal =>
             /\ \A tf \in EntryTfs :
                  FastEqSlow(args.symbol, tf) => ret.ema_dirs[tf] \notin {"bull", "bear"}
             /\ ret.ema_agree =
                  Cardinality({tf \in EntryTfs : /\ ~FastEqSlow(args.symbol, tf)
                                                 /\ ret.ema_dirs[tf] = ret.master_trend})

Sane15(symbol) ==
    LET p == Parsed15(symbol)
    IN  /\ Len(p.c) > 0
        /\ \A i \in 1..Len(p.c) : RGe(p.h[i], p.l[i])
        /\ RLe(Last(p.l), Last(p.c)) /\ RLe(Last(p.c), Last(p.h))

\* C10: for every 15m series whose bars have high >= low and whose last bar
\* has low <= close <= high, neither the long nor the short trigger holds and
\* detect_signal returns no signal.
C10_NoSignalOnOrderedBars ==
    (pc = "done" /\ args.fn = "detect_signal" /\ Sane15(args.symbol)) =>
        /\ ret = NoneVal
        /\ TriggerReady(args.symbol) =>
             /\ TRUE \notin long_trigger(Parsed15(args.symbol), Atr15(args.symbol))
             /\ TRUE \notin short_trigger(Parsed15(args.symbol), Atr15(args.symbol))

\* C10 witness: ordered bars, a bull master trend with two agreeing
\* timeframes, and a strong last bar that closes above the highs of the 20
\* bars before it by more than half the ATR; no signal came back
C10_Witness ==
    /\ pc = "done" /\ args.fn = "detect_signal"
    /\ Sane15(args.symbol)
    /\ MasterIs(args.symbol, "bull")
    /\ AgreeCount(args.symbol, "bull") >= 2
    /\ TriggerReady(args.symbol)
    /\ LET p == Parsed15(args.symbol)
           prior == PriorN(p.h, SWING_LOOKBACK)
       IN  /\ RGt(Last(p.c), RAdd(SeqMax(prior, 1, Len(prior)),
                                  RMul(ATR_ENTRY_MULT, Atr15(args.symbol))))
           /\ BodyOverRange(p) = {TRUE}
    /\ ret = NoneVal

IsEntry(k) == orders[k].order_type = "market"
IsProtective(k) == orders[k].reduce_only

\* C8: the take-profit and stop orders of a symbol are submitted only after
\* the entry market order for that symbol in the same cycle returned success;
\* when the entry answer is not a success no protective order is submitted.
C8_ProtectiveAfterEntry ==
    \A k \in 1..Len(orders) :
        IsProtective(k) =>
            /\ res # NoneVal /\ res.success
            /\ \E j \in 1..(k - 1) :
                 IsEntry(j) /\ orders[j].product_id = orders[k].product_id

\* C8 witness: a successful live entry followed by its limit and stop orders
C8_Witness ==
    /\ pc = "sleep"
    /\ LIVE_TRADING
    /\ Len(orders) = 3
    /\ IsEntry(1) /\ res.success
    /\ orders[2].order_type = "limit" /\ orders[3].order_type = "stop_market"

\* s is a signal some of its quantities trade / every quantity of s trades
SomeQty(s) ==
    s # NoneVal /\ \E q \in compute_qty(s.entry, s.sl, get_balance_usd) : RGt(q, R(0))
EveryQty(s) ==
    s # NoneVal /\ \A q \in compute_qty(s.entry, s.sl, get_balance_usd) : RGt(q, R(0))

\* symbol i of the watchlist can be traded in the current cycle: it has a
\* product id, no open position, and a signal with a quantity > 0 is among
\* those detect_signal and compute_qty can return
CanTrade(i) ==
    /\ product_map[WATCHLIST[i]] # 0
    /\ ~has_open_position(product_map[WATCHLIST[i]])
    /\ \E s \in detect_signal(WATCHLIST[i]) : SomeQty(s)

\* symbol i is traded whatever detect_signal and compute_qty return
MustTrade(i) ==
    /\ product_map[WATCHLIST[i]] # 0
    /\ ~has_open_position(product_map[WATCHLIST[i]])
    /\ \A s \in detect_signal(WATCHLIST[i]) : EveryQty(s)

\* C9: in one run_once cycle at most one entry order is submitted, for the
\* first symbol in WATCHLIST order that has a product id, a signal, no open
\* position and a quantity > 0; no later symbol is scanned once it has been
\* submitted, whether or not it succeeded; skipped symbols get no order.
C9_FirstValidSignalOnly ==
    /\ Cardinality({k \in 1..Len(orders) : IsEntry(k)}) <= 1
    /\ orders # <<>> =>
         /\ IsEntry(1)
         /\ idx \in 1..Len(WATCHLIST)
         /\ CanTrade(idx)
         /\ \A i \in 1..(idx - 1) : ~MustTrade(i)
         /\ \A k \in 1..Len(orders) : orders[k].product_id = product_map[WATCHLIST[idx]]
         /\ pc \in {"tp", "sl", "sleep"}

\* C9 witness: the first two symbols were skipped, the third got the entry
\* order, and the entry failed
C9_Witness ==
    /\ pc = "sleep"
    /\ Len(orders) = 1
    /\ idx = Len(WATCHLIST)
    /\ ~res.success

====
